---- MODULE Spec2Model ----
(***************************************************************************)
(* Model of the data analyst agent: the entry graph of five stage          *)
(* sub-graphs (backend/agent), the shared stage nodes (agent/common.py)    *)
(* and the websocket session loop that prompts the user and resumes the    *)
(* graph (backend/main.py).                                                *)
(*                                                                         *)
(* Texts are sequences of one-character strings so that lower() and        *)
(* strip() are computed.  Optional values are sequences of length <= 1     *)
(* (<<>> is None).  The graph runtime is the superstep scheduler the       *)
(* graphs are compiled for: the tasks of one superstep read the same       *)
(* state, their patches are merged when the last of them returns, and the  *)
(* targets they name form the next superstep.                              *)
(***************************************************************************)
EXTENDS FiniteSets, Integers, Sequences, TLC

VARIABLES
    state,            \* the channels of the graph (OverallState + StepState)
    max_message_turn, \* the turn budget the code stages are built with
    top,              \* the node of the entry graph that is current
    tasks,            \* nodes of the current sub-graph scheduled in this superstep
    writes,           \* patches of the tasks of this superstep that have returned
    interrupts,       \* pending interrupts of the latest snapshot
    resume_value,     \* the value of a Command(resume=...) not yet consumed
    sandboxes,        \* the execution sessions: how many were acquired, and the
                      \* files of the one acquired last
    status,           \* active_sessions[session_id]["status"]
    message_to_user,  \* active_sessions[session_id]["message_to_user"]
    user_response,    \* the payload received in answer to the prompt, until the
                      \* node it resumes has returned
    connected,        \* the caller's websocket is open
    clock,            \* datetime.now(), in ticks
    session_ids,      \* the session_id each connection computed, if any
    active_sessions,  \* the registry: session_id -> the entry stored last
    attempts,         \* failed attempts of the node execution under the retry policy
    raised,           \* the exception the last failed attempt raised, if any
    patch,            \* the Command the node execution returned, if it has
    executions,       \* how often the code block has run in the execution session
    attempted,        \* the node execution the runner is at, with its code block
    probe             \* a call of a helper or of retry_on: its input and output

vars == <<state, max_message_turn, top, tasks, writes, interrupts, resume_value,
          sandboxes, status, message_to_user, user_response, connected,
          clock, session_ids, active_sessions,
          attempts, raised, patch, executions, attempted, probe>>

graph_vars == <<state, top, tasks, writes, interrupts, resume_value, sandboxes>>
session_vars == <<status, message_to_user, user_response, connected>>

\* What no step of a run changes: the budget the stages were built with and
\* the registry of the sessions of other connections.
retry_vars == <<attempts, raised, patch, executions, attempted>>
fixed_vars == <<max_message_turn, clock, session_ids, active_sessions,
                retry_vars, probe>>

(***************************************************************************)
(* Bounds and program constants                                            *)
(***************************************************************************)
\* The turn budget the code stages are built with in the model (the stage
\* modules pass 30, 30 and 50 to get_code_agent_node).
MaxTurns == 1

\* MAX_MESSAGE_TURN of stage 1.
MAX_MESSAGE_TURN == 3

\* The clock is read in ticks, TicksPerSecond of them in one second, up to
\* MaxClock; MaxConnections callers connect.
TicksPerSecond == 2
MaxClock == 3
MaxConnections == 3

(***************************************************************************)
(* Texts                                                                   *)
(***************************************************************************)
UpperLetters ==
    <<"A","B","C","D","E","F","G","H","I","J","K","L","M",
      "N","O","P","Q","R","S","T","U","V","W","X","Y","Z">>

LowerLetters ==
    <<"a","b","c","d","e","f","g","h","i","j","k","l","m",
      "n","o","p","q","r","s","t","u","v","w","x","y","z">>

\* The characters str.strip() removes: every character str.isspace() accepts.
\* A character that has no escape in a string of this module is written by
\* its code point.
Whitespace ==
    { " ", "\t", "\n", "\r", "\f",
      "U+000B", "U+001C", "U+001D", "U+001E", "U+001F", "U+0085", "U+00A0",
      "U+1680", "U+2000", "U+2001", "U+2002", "U+2003", "U+2004", "U+2005",
      "U+2006", "U+2007", "U+2008", "U+2009", "U+200A", "U+2028", "U+2029",
      "U+202F", "U+205F", "U+3000" }

LowerChar(c) ==
    IF \E i \in 1..26 : UpperLetters[i] = c
      THEN LowerLetters[CHOOSE i \in 1..26 : UpperLetters[i] = c]
      ELSE c

\* str.lower()
Lower(s) == [i \in 1..Len(s) |-> LowerChar(s[i])]

RECURSIVE LStrip(_)
LStrip(s) ==
    IF s # <<>> /\ Head(s) \in Whitespace THEN LStrip(Tail(s)) ELSE s

RECURSIVE RStrip(_)
RStrip(s) ==
    IF s # <<>> /\ s[Len(s)] \in Whitespace
      THEN RStrip(SubSeq(s, 1, Len(s) - 1))
      ELSE s

\* str.strip()
Strip(s) == RStrip(LStrip(s))

T_pass == <<"p","a","s","s">>
T_ignore == <<"i","g","n","o","r","e">>
T_q == <<"q">>
T_quit == <<"q","u","i","t">>

\* The payloads the caller sends in answer to a prompt: the "input" value of
\* the JSON message.  isStr = FALSE stands for any value that is not a
\* string (a number, null, a list) or a message that is not an object.
TextPayloads ==
    { <<>>, <<" ", "\f">>,
      <<"P","a","s","s","U+00A0">>,
      <<"\f","I","g","n","o","r","e">>,
      T_q, <<"Q","u","i","t">>,
      <<" ","f","i","x","U+000B">> }

Payloads ==
    { [isStr |-> TRUE, s |-> t] : t \in TextPayloads }
        \cup { [isStr |-> FALSE, s |-> <<>>] }

(***************************************************************************)
(* Messages and state                                                      *)
(***************************************************************************)
Msg(type, kind, text) == [type |-> type, kind |-> kind, text |-> text]

SystemMessage(kind) == Msg("system", kind, <<>>)
HumanMessage(kind, text) == Msg("human", kind, text)
AIMessage(kind, text) == Msg("ai", kind, text)

\* ValidationResult: the model identity that produced it and its verdict.
ValidationResult(model, pass) ==
    [model |-> model, pass_the_validation |-> pass]

\* get_default_steps
get_default_steps ==
    [i \in 1..5 |-> [order |-> i, completed |-> FALSE, report |-> ""]]

\* Fields of StepState that OverallState does not have, with their defaults.
StepDefaults ==
    [step_message_history |-> <<>>,
     code_block |-> "",
     variables_to_save |-> <<>>,
     checklist_validation_result |-> <<>>,
     critic_validation_result |-> <<>>]

StepFields == DOMAIN StepDefaults

\* create_graph_input: the input state of a run.
GraphInput(skip, hitl) ==
    [objective |-> "request",
     variables |-> <<"melbourne_housing_df">>,
     skip_define_objective_step |-> skip,
     use_human_in_the_loop |-> hitl,
     final_report |-> "",
     steps |-> get_default_steps,
     sandbox_id |-> 0,
     step_message_history |-> StepDefaults.step_message_history,
     code_block |-> StepDefaults.code_block,
     variables_to_save |-> StepDefaults.variables_to_save,
     checklist_validation_result |-> StepDefaults.checklist_validation_result,
     critic_validation_result |-> StepDefaults.critic_validation_result]

\* Variant: the sub-graph is entered with the stage-scoped fields of the
\* stage before.
SubgraphInput_keeps(s) == s

\* A sub-graph is a StateGraph(OverallState) of its own: it is entered with
\* the channels of the entry graph, the stage-scoped fields at their defaults.
SubgraphInput(s) ==
    [f \in DOMAIN s |-> IF f \in StepFields THEN StepDefaults[f] ELSE s[f]]

\* Variant: step_message_history without its reducer (the channel is replaced
\* like every other).
ApplyUpdate_replace(s, u) ==
    [f \in DOMAIN s |-> IF f \in DOMAIN u THEN u[f] ELSE s[f]]

\* The reducers: add_messages appends to step_message_history (every message
\* the nodes write is new), every other channel is replaced.
ApplyUpdate(s, u) ==
    [f \in DOMAIN s |->
        IF f \in DOMAIN u
          THEN IF f = "step_message_history" THEN s[f] \o u[f] ELSE u[f]
          ELSE s[f]]

NoUpdate == [f \in {} |-> <<>>]

(***************************************************************************)
(* The entry graph                                                         *)
(***************************************************************************)
Stages ==
    <<"step_1_define_objective", "step_2_data_cleaning",
      "step_3_data_exploration", "step_4_data_analysis",
      "step_5_write_report">>

CodeStages ==
    {"step_2_data_cleaning", "step_3_data_exploration", "step_4_data_analysis"}

\* The order number of the stage a node of the entry graph runs (0: none).
StageOrder(t) ==
    IF \E i \in 1..5 : Stages[i] = t
      THEN CHOOSE i \in 1..5 : Stages[i] = t
      ELSE 0

\* get_current_step: the not completed step of least order, as its order
\* (0 when every step is completed).
get_current_step(plan) ==
    LET not_completed_steps == {i \in DOMAIN plan : ~plan[i].completed}
    IN  IF not_completed_steps = {}
          THEN 0
          ELSE CHOOSE i \in not_completed_steps :
                    \A j \in not_completed_steps : plan[i].order <= plan[j].order

\* Variant: the router dispatches to the first stage whatever the plan says.
stage_router_first(s) == Stages[1]

stage_router(s) ==
    LET current_step == get_current_step(s.steps)
    IN  IF current_step = 0 THEN "END" ELSE Stages[current_step]

\* The static edges between the stages: g.add_edge(stage, next stage).
NextTop(t) ==
    IF StageOrder(t) \in 1..4 THEN Stages[StageOrder(t) + 1] ELSE "END"

\* Variant: START has an edge to both initialising nodes of a code stage.
FirstTasks_both(t) ==
    IF t = "step_1_define_objective" THEN {"init_message_history"}
    ELSE IF t \in CodeStages THEN {"init_e2b_sandbox", "init_message_history"}
    ELSE IF t = "step_5_write_report" THEN {"agent"}
    ELSE {}

\* The node(s) the START edge of each sub-graph schedules.
FirstTasks(t) ==
    IF t = "step_1_define_objective" THEN {"init_message_history"}
    ELSE IF t \in CodeStages THEN {"init_e2b_sandbox"}
    ELSE IF t = "step_5_write_report" THEN {"agent"}
    ELSE {}

(***************************************************************************)
(* The superstep scheduler                                                 *)
(***************************************************************************)
\* The patches of one superstep are applied in the order of the task names.
NodeOrder ==
    <<"agent", "checklist_validator", "critic_validator", "init_e2b_sandbox",
      "init_message_history", "python_executor", "rendevous",
      "save_variables", "write_step_report">>

RECURSIVE ApplyWritesFrom(_, _, _)
ApplyWritesFrom(s, ws, i) ==
    IF i > Len(NodeOrder) THEN s
    ELSE IF \E w \in ws : w.node = NodeOrder[i]
      THEN ApplyWritesFrom(
               ApplyUpdate(s, (CHOOSE w \in ws : w.node = NodeOrder[i]).update),
               ws, i + 1)
      ELSE ApplyWritesFrom(s, ws, i + 1)

ApplyWrites(s, ws) == ApplyWritesFrom(s, ws, 1)

\* Variant: no barrier, each task's patch is merged and its targets are
\* scheduled as soon as it returns.
SuperstepComplete_eager(left) == TRUE

\* The barrier of a superstep: the patches are merged and the next nodes
\* scheduled when no task of the superstep is left running.
SuperstepComplete(left) == left = {}

\* Task `node` returns `update` and names the nodes `goto` (the targets of
\* its Command, or of its static edges; "END" or nothing ends the sub-graph,
\* and the entry graph follows its static edge to the next stage).
Return(node, update, goto) ==
    LET done == writes \cup {[node |-> node, update |-> update, goto |-> goto]}
        left == tasks \ {node}
    IN  IF SuperstepComplete(left)
          THEN LET nxt == (UNION {w.goto : w \in done}) \cup left
               IN  /\ state' = ApplyWrites(state, done)
                   /\ writes' = {}
                   /\ IF nxt \subseteq {"END"}
                        THEN /\ top' = NextTop(top)
                             /\ tasks' = FirstTasks(NextTop(top))
                        ELSE /\ top' = top
                             /\ tasks' = nxt \ {"END"}
          ELSE /\ state' = state
               /\ writes' = done
               /\ tasks' = left
               /\ top' = top

\* The graph is streaming: astream has not returned.
Streaming == status = "running" /\ interrupts = <<>> /\ tasks # {}

\* interrupt(value) when no resume value is there: the node is abandoned, its
\* task stays scheduled and the interrupt is recorded in the snapshot.
Suspend(value) ==
    /\ interrupts' = <<value>>
    /\ UNCHANGED <<state, top, tasks, writes, resume_value, sandboxes>>

\* interrupt() on resume returns the resume value, which is consumed when
\* the node that was executed again returns.
Resuming == resume_value # <<>>

\* The handler is in its first astream as long as it has prompted nobody:
\* every later astream is that of a resume, inside the loop.
in_first_astream == message_to_user = <<>>

\* A node raises and the exception leaves astream.  The first astream of the
\* handler is guarded by the handler that records the status "error"; the
\* astream of a resume runs inside the loop, whose handler records the
\* session as completed.
status_after_raise == IF in_first_astream THEN "error" ELSE "completed"

\* The checkpoint keeps what the last completed superstep wrote; the
\* execution sessions are outside the graph and keep what the failed node
\* did to them.
astream_raises ==
    /\ status' = status_after_raise
    /\ UNCHANGED <<message_to_user, user_response, connected>>
    /\ UNCHANGED <<state, top, tasks, writes, interrupts, resume_value>>

(***************************************************************************)
(* check_if_skip_any_step and the stage router                             *)
(***************************************************************************)
\* Variant: the step list is rebuilt with only the step of the order marked.
MarkCompleted_only(steps, order, report) ==
    [i \in DOMAIN steps |->
        [steps[i] EXCEPT !.completed = (steps[i].order = order),
                         !.report = report]]

MarkCompleted(steps, order, report) ==
    [i \in DOMAIN steps |->
        IF steps[i].order = order
          THEN [steps[i] EXCEPT !.completed = TRUE, !.report = report]
          ELSE steps[i]]

\* Variant: the flag skip_define_objective_step is not looked at.
check_if_skip_any_step_update_none(s) == NoUpdate

check_if_skip_any_step_update(s) ==
    IF s.skip_define_objective_step
      THEN [steps |-> MarkCompleted(s.steps, 1, s.steps[1].report)]
      ELSE NoUpdate

check_if_skip_any_step ==
    /\ top = "check_if_skip_any_step"
    /\ status = "running"
    /\ LET s2 == ApplyUpdate(state, check_if_skip_any_step_update(state))
       IN  /\ state' = s2
           /\ top' = stage_router(s2)
           /\ tasks' = FirstTasks(stage_router(s2))
    /\ UNCHANGED <<writes, interrupts, resume_value, sandboxes, fixed_vars>>
    /\ UNCHANGED session_vars

(***************************************************************************)
(* Stage 1: define the objective                                           *)
(***************************************************************************)
Questions == { <<"q","1">>, <<"q","2">> }

\* The structured answers of the generation service in stage 1.
Schema ==
    [is_request_answerable : BOOLEAN,
     is_request_specific : BOOLEAN,
     message_to_user : Questions]

step_1_seed ==
    <<SystemMessage("instructions"), HumanMessage("user_request", <<>>)>>

step_1_init_message_history ==
    /\ top = "step_1_define_objective"
    /\ Streaming
    /\ "init_message_history" \in tasks
    /\ Return("init_message_history",
              [step_message_history |-> step_1_seed], {"agent"})
    /\ UNCHANGED <<interrupts, resume_value, sandboxes, fixed_vars>>
    /\ UNCHANGED session_vars

\* The objective as rewritten by the generation service from the current
\* objective, the agent's message and the user's answer.  The objective is
\* either the request as create_objective wrote it or a rewrite of it.
new_objective(objective, message, answer) == "updated"

\* Variant: the limit is reached one turn later.
step_1_turn_limit_late(history) == Len(history) > 2 * MAX_MESSAGE_TURN + 2

step_1_turn_limit(history) == Len(history) > 2 * MAX_MESSAGE_TURN

step_1_agent_update(s, response, answer) ==
    [step_message_history |->
        <<AIMessage("message_to_user", response.message_to_user),
          HumanMessage("user_said", answer)>>,
     objective |-> new_objective(s.objective, response.message_to_user, answer)]

\* The generation service is invoked at every execution of the node, also
\* when the node is executed again on resume.
step_1_agent ==
    /\ top = "step_1_define_objective"
    /\ Streaming
    /\ "agent" \in tasks
    /\ \E response \in Schema :
         IF step_1_turn_limit(state.step_message_history)
           THEN /\ Return("agent", NoUpdate, {"END"})
                /\ resume_value' = <<>>
                /\ UNCHANGED interrupts
         ELSE IF response.is_request_answerable /\ response.is_request_specific
           THEN /\ Return("agent", NoUpdate, {})
                /\ resume_value' = <<>>
                /\ UNCHANGED interrupts
         ELSE IF ~Resuming
           THEN Suspend([node |-> "agent", kind |-> "question",
                         text |-> response.message_to_user])
           ELSE /\ Return("agent",
                          step_1_agent_update(state, response, resume_value[1]),
                          {"agent"})
                /\ resume_value' = <<>>
                /\ UNCHANGED interrupts
    /\ user_response' = <<>>
    /\ UNCHANGED <<status, message_to_user, connected>>
    /\ UNCHANGED <<sandboxes, fixed_vars>>

(***************************************************************************)
(* Stages 2-4: the shared nodes of agent/common.py                         *)
(***************************************************************************)
\* The answers of the generation service to the code agent: whether the
\* content holds a ```python fence, the (stripped) text inside the fence,
\* and whether the content holds DONE.
Responses == [fence : BOOLEAN, body : {"", "code"}, done : BOOLEAN]

\* The selections of variables to persist the generation service may make.
VariableSelections ==
    { <<>>, <<"result_df">>, <<"result_df", "result_df">> }

\* extract_code_block: None (<<>>) when the content holds DONE or no fence.
extract_code_block(response) ==
    IF response.done THEN <<>>
    ELSE IF response.fence THEN <<response.body>>
    ELSE <<>>

\* Truth value of `if code_block:`.
Truthy(code_block) == code_block # <<>> /\ code_block[1] # ""

\* get_e2b_sandbox: a new execution session, identified by its number.
get_e2b_sandbox == sandboxes.acquired + 1

\* upload_file_to_e2b_sandbox, for each variable of the state: the files
\* written to the session.
upload_file_to_e2b_sandbox(variables) == variables

\* retry_policy = RetryPolicy(..., max_attempts=3, ...)
max_attempts == 3

\* g.add_node(node, retry=retry_policy) of the code stages: the data
\* cleaning and the data analysis stages add init_e2b_sandbox and
\* init_message_history without a retry policy.
retry_wrapped(stage, node) ==
    \/ stage = "step_3_data_exploration"
    \/ node \notin {"init_e2b_sandbox", "init_message_history"}

\* The files written to a session whose node has uploaded the first
\* `uploaded` variables of the state.
uploaded_files(variables, uploaded) ==
    SubSeq(upload_file_to_e2b_sandbox(variables), 1, uploaded)

\* The sessions acquired by the attempts of init_e2b_sandbox that raised
\* before the attempt that returns: an attempt raises after
\* get_e2b_sandbox() (an upload, the bootstrap execution or its error) or
\* in it, and the runner executes the node again while the retry policy of
\* the stage has attempts left.
sessions_of_retried(stage, node) ==
    0..(IF retry_wrapped(stage, node) THEN max_attempts - 1 ELSE 0)

init_e2b_sandbox ==
    /\ top \in CodeStages
    /\ Streaming
    /\ "init_e2b_sandbox" \in tasks
    /\ \E retried \in sessions_of_retried(top, "init_e2b_sandbox") :
         LET entered == SubgraphInput(state)
             e2b_sandbox == get_e2b_sandbox + retried
         IN  /\ sandboxes' =
                   [acquired |-> e2b_sandbox,
                    files |-> upload_file_to_e2b_sandbox(entered.variables)]
             /\ state' = ApplyUpdate(entered, [sandbox_id |-> e2b_sandbox])
             /\ tasks' = {"init_message_history"}
    /\ UNCHANGED <<top, writes, interrupts, resume_value, fixed_vars>>
    /\ UNCHANGED session_vars

\* The sessions the executions of a node have acquired when the node fails
\* for good: init_e2b_sandbox acquires one in each of the attempts the
\* stage gives it, unless the attempt fails in get_e2b_sandbox().  The
\* other nodes connect to the session of the stage.
sessions_of_failed(stage, node) ==
    IF node = "init_e2b_sandbox"
      THEN 0..(IF retry_wrapped(stage, node) THEN max_attempts ELSE 1)
      ELSE {0}

\* What the executions of a node that has not returned leave in the
\* execution sessions.  The session acquired last holds the files written
\* to it: all of them when the bootstrap execution was reached, the first
\* ones when an upload did not finish.
sessions_left(stage, node) ==
    \E acquired \in sessions_of_failed(stage, node) :
      LET variables == SubgraphInput(state).variables
      IN  \E uploaded \in 0..Len(variables) :
            /\ acquired = 0 => uploaded = 0
            /\ sandboxes' =
                  IF acquired = 0 THEN sandboxes
                  ELSE [acquired |-> sandboxes.acquired + acquired,
                        files |-> uploaded_files(variables, uploaded)]

\* Any node that is running may raise: the generation service or the
\* execution session fails and the retries, if the node has any, are used up.
node_fails ==
    /\ Streaming
    /\ \E node \in tasks : sessions_left(top, node)
    /\ astream_raises
    /\ UNCHANGED fixed_vars

\* The caller's connection ends while the graph is streaming: the send_json
\* of a chunk a node has written (its oneline_message, its current_step)
\* raises in the loop over astream, which ends the stream with the nodes
\* where they are.  In the first astream the outer handler records "error";
\* in the astream of a resume the handler of the loop records "completed",
\* before it sends the final report on the closed socket
\* (report_send_raises).
chunk_send_raises ==
    /\ Streaming
    /\ connected
    /\ connected' = FALSE
    /\ status' = status_after_raise
    /\ \E node \in tasks : sessions_left(top, node)
    /\ UNCHANGED <<state, top, tasks, writes, interrupts, resume_value>>
    /\ UNCHANGED <<message_to_user, user_response, fixed_vars>>

step_seed ==
    <<SystemMessage("instructions"), HumanMessage("lets_start", <<>>)>>

init_message_history ==
    /\ top \in CodeStages
    /\ Streaming
    /\ "init_message_history" \in tasks
    /\ Return("init_message_history",
              [step_message_history |-> step_seed], {"agent"})
    /\ UNCHANGED <<interrupts, resume_value, sandboxes, fixed_vars>>
    /\ UNCHANGED session_vars

\* Variant: the budget compared with >= instead of >.
turn_limit_reached_at(history, max_turn) == Len(history) >= 2 * max_turn

\* len(state.step_message_history) > (2 * max_message_turn)
turn_limit_reached(history, max_turn) == Len(history) > 2 * max_turn

limit_update ==
    [step_message_history |-> <<HumanMessage("maximum_messages", <<>>)>>]

execute_update(response, code_block) ==
    [step_message_history |-> <<AIMessage("response", <<>>)>>,
     code_block |-> code_block[1]]

done_update(response, selection) ==
    [variables_to_save |-> selection,
     step_message_history |-> <<AIMessage("response", <<>>)>>]

clarify_update(response) ==
    [step_message_history |->
        <<AIMessage("response", <<>>),
          HumanMessage("check_your_last_response", <<>>)>>]

\* Variant: a DONE response is followed by the checklist validator alone.
agent_command_checklist_only(s, max_turn, next_node_name, response, selection) ==
    IF turn_limit_reached(s.step_message_history, max_turn)
      THEN [goto |-> {next_node_name}, update |-> limit_update]
      ELSE LET code_block == extract_code_block(response)
           IN  IF Truthy(code_block)
                 THEN [goto |-> {"python_executor"},
                       update |-> execute_update(response, code_block)]
               ELSE IF response.done
                 THEN [goto |-> {"checklist_validator"},
                       update |-> done_update(response, selection)]
               ELSE [goto |-> {"agent"}, update |-> clarify_update(response)]

\* The Command the code agent returns.
agent_command(s, max_turn, next_node_name, response, selection) ==
    IF turn_limit_reached(s.step_message_history, max_turn)
      THEN [goto |-> {next_node_name}, update |-> limit_update]
      ELSE LET code_block == extract_code_block(response)
           IN  IF Truthy(code_block)
                 THEN [goto |-> {"python_executor"},
                       update |-> execute_update(response, code_block)]
               ELSE IF response.done
                 THEN [goto |-> {"checklist_validator", "critic_validator"},
                       update |-> done_update(response, selection)]
               ELSE [goto |-> {"agent"}, update |-> clarify_update(response)]

\* agent = get_code_agent_node(StepState, MAX_MESSAGE_TURN, save_variables.__name__)
agent ==
    /\ top \in CodeStages
    /\ Streaming
    /\ "agent" \in tasks
    /\ \E response \in Responses, selection \in VariableSelections :
         LET c == agent_command(state, max_message_turn, "save_variables",
                                response, selection)
         IN  Return("agent", c.update, c.goto)
    /\ UNCHANGED <<interrupts, resume_value, sandboxes, fixed_vars>>
    /\ UNCHANGED session_vars

python_executor ==
    /\ top \in CodeStages
    /\ Streaming
    /\ "python_executor" \in tasks
    /\ Return("python_executor",
              [step_message_history |->
                  <<HumanMessage("execution_output", <<>>)>>],
              {"agent"})
    /\ UNCHANGED <<interrupts, resume_value, sandboxes, fixed_vars>>
    /\ UNCHANGED session_vars

\* The summary message a validator appends for one result.
ResultMessage(kind, result) ==
    AIMessage(kind, IF result.pass_the_validation THEN <<"True">> ELSE <<"False">>)

checklist_validator_update(result) ==
    [checklist_validation_result |-> <<result>>,
     step_message_history |-> <<ResultMessage("checklist_result", result)>>]

checklist_validator ==
    /\ top \in CodeStages
    /\ Streaming
    /\ "checklist_validator" \in tasks
    /\ \E pass \in BOOLEAN :
         Return("checklist_validator",
                checklist_validator_update(
                    ValidationResult("reasoning_model_large", pass)),
                {"rendevous"})
    /\ UNCHANGED <<interrupts, resume_value, sandboxes, fixed_vars>>
    /\ UNCHANGED session_vars

\* Variant: the summary messages in the reverse order of the results.
critic_validator_update_reversed(result_from_o3, result_from_claude_4_opus) ==
    LET results == <<result_from_o3, result_from_claude_4_opus>>
    IN  [critic_validation_result |-> <<results>>,
         step_message_history |->
            [i \in 1..Len(results) |->
                ResultMessage("critic_result", results[Len(results) + 1 - i])]]

critic_validator_update(result_from_o3, result_from_claude_4_opus) ==
    LET results == <<result_from_o3, result_from_claude_4_opus>>
    IN  [critic_validation_result |-> <<results>>,
         step_message_history |->
            [i \in 1..Len(results) |-> ResultMessage("critic_result", results[i])]]

critic_validator ==
    /\ top \in CodeStages
    /\ Streaming
    /\ "critic_validator" \in tasks
    /\ \E p1 \in BOOLEAN, p2 \in BOOLEAN :
         Return("critic_validator",
                critic_validator_update(ValidationResult("o3", p1),
                                        ValidationResult("claude_4_opus", p2)),
                {"rendevous"})
    /\ UNCHANGED <<interrupts, resume_value, sandboxes, fixed_vars>>
    /\ UNCHANGED session_vars

\* Variant: any() instead of all().
all_critics_passed_any(s) ==
    /\ s.critic_validation_result # <<>>
    /\ Len(s.critic_validation_result[1]) > 0
    /\ \E i \in 1..Len(s.critic_validation_result[1]) :
          s.critic_validation_result[1][i].pass_the_validation

all_critics_passed(s) ==
    /\ s.critic_validation_result # <<>>
    /\ Len(s.critic_validation_result[1]) > 0
    /\ \A i \in 1..Len(s.critic_validation_result[1]) :
          s.critic_validation_result[1][i].pass_the_validation

validation_passed(s) ==
    /\ s.checklist_validation_result # <<>>
    /\ s.checklist_validation_result[1].pass_the_validation
    /\ all_critics_passed(s)

\* Variant: the request to address the feedback is written twice.
feedback_update_twice ==
    [step_message_history |->
        <<HumanMessage("address_feedbacks", <<>>),
          HumanMessage("address_feedbacks", <<>>)>>]

feedback_update ==
    [step_message_history |-> <<HumanMessage("address_feedbacks", <<>>)>>]

\* The decision by the validation results (both branches of rendevous).
decide_by_validation(s, next_node_name, agent_node_name) ==
    IF validation_passed(s)
      THEN [goto |-> {next_node_name}, update |-> NoUpdate]
      ELSE [goto |-> {agent_node_name}, update |-> feedback_update]

\* Variant: user_input compared with "ignore" without lower().
decide_by_user_exact(s, next_node_name, agent_node_name, user_input) ==
    IF user_input = T_ignore
      THEN [goto |-> {next_node_name}, update |-> NoUpdate]
    ELSE IF Lower(user_input) = T_pass \/ Strip(user_input) = <<>>
      THEN decide_by_validation(s, next_node_name, agent_node_name)
    ELSE [goto |-> {agent_node_name},
          update |-> [step_message_history |->
                         <<HumanMessage("user_input", user_input)>>]]

\* The decision of rendevous once interrupt() has returned user_input.
decide_by_user(s, next_node_name, agent_node_name, user_input) ==
    IF Lower(user_input) = T_ignore
      THEN [goto |-> {next_node_name}, update |-> NoUpdate]
    ELSE IF Lower(user_input) = T_pass \/ Strip(user_input) = <<>>
      THEN decide_by_validation(s, next_node_name, agent_node_name)
    ELSE [goto |-> {agent_node_name},
          update |-> [step_message_history |->
                         <<HumanMessage("user_input", user_input)>>]]

\* The payload of the interrupt of rendevous: the summary of both results
\* (its text is not modelled).
rendevous_message(s) ==
    [node |-> "rendevous", kind |-> "validation", text |-> <<>>]

rendevous ==
    /\ top \in CodeStages
    /\ Streaming
    /\ "rendevous" \in tasks
    /\ IF state.use_human_in_the_loop
         THEN IF ~Resuming
                THEN Suspend(rendevous_message(state))
                ELSE LET c == decide_by_user(state, "save_variables", "agent",
                                             resume_value[1])
                     IN  /\ Return("rendevous", c.update, c.goto)
                         /\ resume_value' = <<>>
                         /\ UNCHANGED <<interrupts, sandboxes>>
         ELSE LET c == decide_by_validation(state, "save_variables", "agent")
              IN  /\ Return("rendevous", c.update, c.goto)
                  /\ UNCHANGED <<interrupts, resume_value, sandboxes>>
    /\ user_response' = <<>>
    /\ UNCHANGED <<status, message_to_user, connected>>
    /\ UNCHANGED fixed_vars

\* What run_code(key) gives for one selected name: an execution error (the
\* name is not defined), an execution without error and without result (the
\* name is bound to None), or one result.
Evaluations == {"error", "no_result", "result"}

\* parse_e2b_execution_results: one (value, type) pair per result.
parse_e2b_execution_results(evaluation) ==
    IF evaluation = "result" THEN <<"value">> ELSE <<>>

\* The loop of save_variables: one Data per parsed result of each selected
\* name, in the order of the selection, under the key of the name.
RECURSIVE final_variables(_, _)
final_variables(variables_to_save, evaluations) ==
    IF variables_to_save = <<>> THEN <<>>
    ELSE [i \in 1..Len(parse_e2b_execution_results(Head(evaluations))) |->
              Head(variables_to_save)]
           \o final_variables(Tail(variables_to_save), Tail(evaluations))

save_variables_update(s, evaluations) ==
    [variables |-> final_variables(s.variables_to_save, evaluations)]

save_variables ==
    /\ top \in CodeStages
    /\ Streaming
    /\ "save_variables" \in tasks
    /\ \E evaluations \in [1..Len(state.variables_to_save) -> Evaluations] :
         IF \E i \in DOMAIN evaluations : evaluations[i] = "error"
           THEN astream_raises /\ UNCHANGED sandboxes
           ELSE /\ Return("save_variables",
                          save_variables_update(state, evaluations),
                          {"write_step_report"})
                /\ UNCHANGED <<interrupts, resume_value, sandboxes>>
                /\ UNCHANGED session_vars
    /\ UNCHANGED fixed_vars

write_step_report_update(s, order) ==
    [steps |-> MarkCompleted(s.steps, order, "report")]

write_step_report ==
    /\ top \in CodeStages
    /\ Streaming
    /\ "write_step_report" \in tasks
    /\ Return("write_step_report",
              write_step_report_update(state, StageOrder(top)), {"END"})
    /\ UNCHANGED <<interrupts, resume_value, sandboxes, fixed_vars>>
    /\ UNCHANGED session_vars

(***************************************************************************)
(* Stage 5: write the report                                               *)
(***************************************************************************)
step_5_agent ==
    /\ top = "step_5_write_report"
    /\ Streaming
    /\ "agent" \in tasks
    /\ LET entered == SubgraphInput(state)
       IN  /\ state' = ApplyUpdate(entered, [final_report |-> "final_report"])
           /\ top' = NextTop(top)
           /\ tasks' = FirstTasks(NextTop(top))
    /\ UNCHANGED <<writes, interrupts, resume_value, sandboxes, fixed_vars>>
    /\ UNCHANGED session_vars

(***************************************************************************)
(* The session loop of websocket_analysis                                  *)
(***************************************************************************)
\* latest_snapshot.interrupts is not empty: prompt the caller.
prompt_user ==
    /\ status = "running"
    /\ interrupts # <<>>
    /\ status' = "waiting_for_input"
    /\ message_to_user' = <<interrupts[1]>>
    /\ UNCHANGED <<user_response, connected>>
    /\ UNCHANGED fixed_vars
    /\ UNCHANGED graph_vars

\* Variant: the payload compared without lower().
is_quit_exact(payload) == payload.s \in {T_q, T_quit}

\* user_response.lower() in ["q", "quit"]
is_quit(payload) == Lower(payload.s) \in {T_q, T_quit}

\* The payload is no string: user_response.lower() raises, and the handler
\* of the loop records the session as completed.
receive_fails ==
    /\ status = "waiting_for_input"
    /\ \E payload \in Payloads :
         /\ ~payload.isStr
         /\ user_response' = <<payload>>
    /\ status' = "completed"
    /\ UNCHANGED <<message_to_user, connected, fixed_vars>>
    /\ UNCHANGED graph_vars

user_quits ==
    /\ status = "waiting_for_input"
    /\ \E payload \in Payloads :
         /\ payload.isStr
         /\ is_quit(payload)
         /\ user_response' = <<payload>>
    /\ status' = "cancelled"
    /\ UNCHANGED <<message_to_user, connected, fixed_vars>>
    /\ UNCHANGED graph_vars

\* Variant: the pending interrupt stays in the snapshot after the resume.
resume_graph_keeps_interrupt ==
    /\ status = "waiting_for_input"
    /\ \E payload \in Payloads :
         /\ payload.isStr
         /\ ~is_quit(payload)
         /\ user_response' = <<payload>>
         /\ resume_value' = <<Strip(payload.s)>>
    /\ status' = "running"
    /\ UNCHANGED <<state, top, tasks, writes, sandboxes, interrupts>>
    /\ UNCHANGED <<message_to_user, connected, fixed_vars>>

\* g.astream(Command(resume=user_response.strip()), ...)
resume_graph ==
    /\ status = "waiting_for_input"
    /\ \E payload \in Payloads :
         /\ payload.isStr
         /\ ~is_quit(payload)
         /\ user_response' = <<payload>>
         /\ resume_value' = <<Strip(payload.s)>>
    /\ status' = "running"
    /\ interrupts' = <<>>
    /\ UNCHANGED <<state, top, tasks, writes, sandboxes>>
    /\ UNCHANGED <<message_to_user, connected, fixed_vars>>

\* The latest snapshot has no interrupt: the analysis is completed.
analysis_completed ==
    /\ status = "running"
    /\ interrupts = <<>>
    /\ top = "END"
    /\ status' = "completed"
    /\ UNCHANGED <<message_to_user, user_response, connected, fixed_vars>>
    /\ UNCHANGED graph_vars

\* The caller's connection ends while the handler waits for the answer to
\* a prompt (a connection that ends earlier is noticed here, at the next
\* receive_json).  receive_json raises and the handler of the loop records
\* the session as completed, before it sends the final report on the
\* closed socket (report_send_raises).
connection_lost ==
    /\ connected
    /\ status = "waiting_for_input"
    /\ connected' = FALSE
    /\ status' = "completed"
    /\ UNCHANGED <<message_to_user, user_response, fixed_vars>>
    /\ UNCHANGED graph_vars

\* The caller has gone when the handler sends the message that follows its
\* last status ("Analysis Cancelled" after "cancelled", "Analysis Complete"
\* after "completed"), and the server raises on the send: the handler of the
\* loop takes the exception and records the session as completed.
closing_send_raises ==
    /\ connected
    /\ status \in {"cancelled", "completed"}
    /\ connected' = FALSE
    /\ status' = "completed"
    /\ UNCHANGED <<message_to_user, user_response, fixed_vars>>
    /\ UNCHANGED graph_vars

\* The handler of the loop sends the final report on the closed socket: the
\* send raises, the send of its own handler raises too, and the outer
\* handler records "error".
report_send_raises ==
    /\ ~connected
    /\ status = "completed"
    /\ status' = "error"
    /\ UNCHANGED <<message_to_user, user_response, connected, fixed_vars>>
    /\ UNCHANGED graph_vars

(***************************************************************************)
(* The sessions of several connections: websocket_analysis up to the       *)
(* point where it stores its session                                       *)
(***************************************************************************)
Connections == 1..MaxConnections

\* datetime.now().strftime("%Y-%m-%d_%H-%M-%S"): the time to the second.
strftime(t) == t \div TicksPerSecond

\* active_sessions[session_id] = {...}: the entry is stored under the key,
\* over the entry that was there.
store_session(sessions, session_id, entry) ==
    [k \in DOMAIN sessions \cup {session_id} |->
        IF k = session_id THEN entry ELSE sessions[k]]

\* The handler of connection c computes its session_id, configures the
\* graph with it as thread_id and stores its session.
create_session(c) ==
    /\ session_ids[c] = <<>>
    /\ LET session_id == strftime(clock)
       IN  /\ session_ids' = [session_ids EXCEPT ![c] = <<session_id>>]
           /\ active_sessions' =
                 store_session(active_sessions, session_id,
                               [status |-> "running", thread_id |-> session_id,
                                websocket |-> c])
    /\ UNCHANGED <<clock, max_message_turn, retry_vars, probe>>
    /\ UNCHANGED graph_vars
    /\ UNCHANGED session_vars

\* Time passes.
tick ==
    /\ clock < MaxClock
    /\ clock' = clock + 1
    /\ UNCHANGED <<session_ids, active_sessions, max_message_turn>>
    /\ UNCHANGED <<retry_vars, probe>>
    /\ UNCHANGED graph_vars
    /\ UNCHANGED session_vars

(***************************************************************************)
(* Specification                                                           *)
(***************************************************************************)
Init ==
    /\ \E skip \in BOOLEAN, hitl \in BOOLEAN : state = GraphInput(skip, hitl)
    /\ max_message_turn = MaxTurns
    /\ top = "check_if_skip_any_step"
    /\ tasks = {}
    /\ writes = {}
    /\ interrupts = <<>>
    /\ resume_value = <<>>
    /\ sandboxes = [acquired |-> 0, files |-> <<>>]
    /\ status = "running"
    /\ message_to_user = <<>>
    /\ user_response = <<>>
    /\ connected = TRUE
    /\ clock = 0
    /\ session_ids = [c \in Connections |-> <<>>]
    /\ active_sessions = <<>>
    /\ attempts = 0
    /\ raised = <<>>
    /\ patch = <<>>
    /\ executions = 0
    /\ attempted = <<>>
    /\ probe = <<>>

Next ==
    \/ check_if_skip_any_step
    \/ step_1_init_message_history
    \/ step_1_agent
    \/ init_e2b_sandbox
    \/ init_message_history
    \/ agent
    \/ python_executor
    \/ checklist_validator
    \/ critic_validator
    \/ rendevous
    \/ save_variables
    \/ write_step_report
    \/ step_5_agent
    \/ prompt_user
    \/ receive_fails
    \/ user_quits
    \/ resume_graph
    \/ analysis_completed
    \/ node_fails
    \/ chunk_send_raises
    \/ connection_lost
    \/ closing_send_raises
    \/ report_send_raises

Spec == Init /\ [][Next]_vars

\* The steps the program takes when its collaborators answer: the runtime
\* runs every scheduled node, the session loop acts on every snapshot, and
\* the caller answers every prompt.  A node that raises for good, a
\* connection that ends and a send that fails are steps of the environment:
\* they may happen, nothing makes them happen.
Progress ==
    \/ check_if_skip_any_step
    \/ step_1_init_message_history
    \/ step_1_agent
    \/ init_e2b_sandbox
    \/ init_message_history
    \/ agent
    \/ python_executor
    \/ checklist_validator
    \/ critic_validator
    \/ rendevous
    \/ save_variables
    \/ write_step_report
    \/ step_5_agent
    \/ prompt_user
    \/ receive_fails
    \/ user_quits
    \/ resume_graph
    \/ analysis_completed

FairSpec == Spec /\ WF_vars(Progress)

\* The turn budget of the runs that validate twice in one stage.
RoundsTurns == 4

\* Runs that skip stage 1, with a turn budget that leaves room for a second
\* round of validation after a loop-back (the stages are built with budgets
\* of 30 and 50).
RoundsInit ==
    /\ \E hitl \in BOOLEAN : state = GraphInput(TRUE, hitl)
    /\ max_message_turn = RoundsTurns
    /\ top = "check_if_skip_any_step"
    /\ tasks = {}
    /\ writes = {}
    /\ interrupts = <<>>
    /\ resume_value = <<>>
    /\ sandboxes = [acquired |-> 0, files |-> <<>>]
    /\ status = "running"
    /\ message_to_user = <<>>
    /\ user_response = <<>>
    /\ connected = TRUE
    /\ clock = 0
    /\ session_ids = [c \in Connections |-> <<>>]
    /\ active_sessions = <<>>
    /\ attempts = 0
    /\ raised = <<>>
    /\ patch = <<>>
    /\ executions = 0
    /\ attempted = <<>>
    /\ probe = <<>>

RoundsNext ==
    \/ check_if_skip_any_step
    \/ init_e2b_sandbox
    \/ init_message_history
    \/ agent
    \/ python_executor
    \/ checklist_validator
    \/ critic_validator
    \/ rendevous
    \/ save_variables
    \/ write_step_report
    \/ step_5_agent
    \/ prompt_user
    \/ receive_fails
    \/ user_quits
    \/ resume_graph
    \/ analysis_completed
    \/ node_fails
    \/ chunk_send_raises
    \/ connection_lost
    \/ closing_send_raises
    \/ report_send_raises

RoundsSpec == RoundsInit /\ [][RoundsNext]_vars

\* Callers connect while time passes.
SessionsNext ==
    \/ tick
    \/ \E c \in Connections : create_session(c)

SessionsSpec == Init /\ [][SessionsNext]_vars

(***************************************************************************)
(* The retry policy                                                        *)
(***************************************************************************)
\* The classes of the exceptions a node execution raises, each with the
\* classes it is an instance of (itself and its bases).
Bases ==
    [ConnectionError |-> {"ConnectionError", "OSError"},
     ConnectionResetError |->
        {"ConnectionResetError", "ConnectionError", "OSError"},
     TimeoutError |-> {"TimeoutError", "OSError"},
     FileNotFoundError |-> {"FileNotFoundError", "OSError"},
     httpx_HTTPStatusError |-> {"httpx_HTTPStatusError", "httpx_HTTPError"},
     httpx_ConnectError |->
        {"httpx_ConnectError", "httpx_TransportError", "httpx_HTTPError"},
     requests_HTTPError |->
        {"requests_HTTPError", "requests_RequestException", "OSError"},
     requests_ConnectionError |->
        {"requests_ConnectionError", "requests_RequestException", "OSError"},
     ValueError |-> {"ValueError"},
     TypeError |-> {"TypeError"},
     ZeroDivisionError |-> {"ZeroDivisionError", "ArithmeticError"},
     ImportError |-> {"ImportError"},
     KeyError |-> {"KeyError", "LookupError"},
     NameError |-> {"NameError"},
     SyntaxError |-> {"SyntaxError"},
     RuntimeError |-> {"RuntimeError"},
     ReferenceError |-> {"ReferenceError"},
     StopIteration |-> {"StopIteration"},
     StopAsyncIteration |-> {"StopAsyncIteration"},
     Exception |-> {"Exception"}]

isinstance(exc, class) == class \in Bases[exc.cls]

\* The status codes of the responses the HTTP errors carry.
StatusCodes == {200, 404, 499, 500, 599, 600}

BootstrapError ==
    [cls |-> "Exception", response |-> <<>>,
     args |-> "Error initializing sandbox"]

\* get_e2b_sandbox raises it when the template of the sessions is not
\* configured, before a session is created.
TemplateError ==
    [cls |-> "Exception", response |-> <<>>,
     args |-> "E2B_PYTHON_AGENT_TEMPLATE_ID is not set"]

\* save_variables raises it when the session answers the evaluation of a
\* variable with an execution error.
SaveError ==
    [cls |-> "Exception", response |-> <<>>,
     args |-> "Error saving variable"]

\* The exceptions: an httpx.HTTPStatusError always carries a response, a
\* requests.HTTPError carries one or None (<<>>), the others carry none.
Exceptions ==
    { [cls |-> c, response |-> <<>>, args |-> ""] :
        c \in DOMAIN Bases \ {"httpx_HTTPStatusError"} }
    \cup { [cls |-> c, response |-> <<code>>, args |-> ""] :
             c \in {"httpx_HTTPStatusError", "requests_HTTPError"},
             code \in StatusCodes }
    \cup { BootstrapError, TemplateError, SaveError }

\* bool(response) of requests: Response.__bool__ is Response.ok, which is
\* False for every status from 400 up to 599; None is false.
response_bool(response) ==
    /\ response # <<>>
    /\ ~(400 <= response[1] /\ response[1] < 600)

DenyList ==
    {"ValueError", "TypeError", "ArithmeticError", "ImportError",
     "LookupError", "NameError", "SyntaxError", "RuntimeError",
     "ReferenceError", "StopIteration", "StopAsyncIteration", "OSError"}

\* Variant: every exception is retried.
retry_on_always(exc) == TRUE

retry_on(exc) ==
    IF isinstance(exc, "ConnectionError") THEN TRUE
    ELSE IF isinstance(exc, "httpx_HTTPStatusError")
      THEN 500 <= exc.response[1] /\ exc.response[1] < 600
    ELSE IF isinstance(exc, "requests_HTTPError")
      THEN IF response_bool(exc.response)
             THEN 500 <= exc.response[1] /\ exc.response[1] < 600
             ELSE TRUE
    ELSE IF \E class \in DenyList : isinstance(exc, class) THEN FALSE
    ELSE TRUE

\* The code blocks the agent hands to the executor: one that only reads
\* the variables of the session, one that changes them in place (it drops
\* a column of the table).
CodeBlocks == {"read", "drop_column"}

\* e2b_sandbox.run_code(state.code_block) in a session in which the block
\* has run times_run times: the column is gone after the first execution.
run_code(code_block, times_run) ==
    IF code_block = "drop_column" /\ times_run > 0
      THEN <<"KeyError">>
      ELSE <<"results">>

\* The nodes that call the execution session while they run.
SessionNodes == {"init_e2b_sandbox", "python_executor", "save_variables"}

\* The nodes of a code stage whose execution is followed attempt by
\* attempt (rendevous raises no exception of its own before its interrupt).
RetryNodes ==
    {NodeOrder[i] : i \in DOMAIN NodeOrder} \ {"rendevous"}

\* The exceptions the attempts raise in the runs followed attempt by
\* attempt: a connection failure, an error of the deny list, and the
\* exceptions the nodes raise themselves.
Failures ==
    { [cls |-> "ConnectionError", response |-> <<>>, args |-> ""],
      [cls |-> "ValueError", response |-> <<>>, args |-> ""],
      BootstrapError, TemplateError, SaveError }

\* The Command one execution of the node returns, the generation service
\* giving the same answer to the same request; code_block is what the code
\* block of the state does in the session.
node_patch(node, code_block) ==
    CASE node = "init_e2b_sandbox" ->
           [goto |-> {"init_message_history"},
            update |-> [sandbox_id |-> get_e2b_sandbox]]
      [] node = "init_message_history" ->
           [goto |-> {"agent"}, update |-> [step_message_history |-> step_seed]]
      [] node = "agent" ->
           agent_command(state, max_message_turn, "save_variables",
                         [fence |-> TRUE, body |-> "code", done |-> FALSE],
                         <<>>)
      [] node = "python_executor" ->
           [goto |-> {"agent"},
            update |-> [step_message_history |->
                <<HumanMessage("execution_output",
                               run_code(code_block, executions))>>]]
      [] node = "checklist_validator" ->
           [goto |-> {"rendevous"},
            update |-> checklist_validator_update(
                           ValidationResult("reasoning_model_large", TRUE))]
      [] node = "critic_validator" ->
           [goto |-> {"rendevous"},
            update |-> critic_validator_update(
                           ValidationResult("o3", TRUE),
                           ValidationResult("claude_4_opus", TRUE))]
      [] node = "save_variables" ->
           [goto |-> {"write_step_report"},
            update |-> save_variables_update(
                           state,
                           [i \in 1..Len(state.variables_to_save) |->
                               "result"])]
      [] node = "write_step_report" ->
           [goto |-> {"END"},
            update |-> write_step_report_update(state, StageOrder(top))]

\* What an attempt does to the execution session before it ends: the node
\* acquires a session and uploads the variables one by one, or runs the
\* code block.
session_effect(node, reached, uploaded) ==
    /\ sandboxes' =
          IF node = "init_e2b_sandbox" /\ reached
            THEN [acquired |-> get_e2b_sandbox,
                  files |-> uploaded_files(state.variables, uploaded)]
            ELSE sandboxes
    /\ executions' =
          IF node = "python_executor" /\ reached
            THEN executions + 1
            ELSE executions

\* The exceptions an attempt of the node raises, before (reached = FALSE) or
\* after its call of the execution session: the bootstrap error is raised
\* by init_e2b_sandbox, on the session it has acquired and after all the
\* uploads; the template error by init_e2b_sandbox before it has a session;
\* the save error by save_variables on the evaluation of a variable to save.
\* The failures of the services are raised before the bootstrap check.
raises(node, exc, reached, uploaded) ==
    /\ reached => node \in SessionNodes
    /\ uploaded # 0 => (node = "init_e2b_sandbox" /\ reached)
    /\ exc = BootstrapError => (/\ node = "init_e2b_sandbox"
                                /\ reached
                                /\ uploaded = Len(state.variables))
    /\ exc = TemplateError => (node = "init_e2b_sandbox" /\ ~reached)
    /\ exc = SaveError => (/\ node = "save_variables"
                           /\ reached
                           /\ state.variables_to_save # <<>>)

\* The runner is at an attempt of the node: a node of a code stage that is
\* scheduled in a run that is streaming, the same node and the same code
\* block as in the attempts before.
attempt_of(node, code_block) ==
    /\ top \in CodeStages
    /\ Streaming
    /\ patch = <<>>
    /\ node \in tasks \cap RetryNodes
    /\ attempted' =
          <<[node |-> node,
             code_block |->
                IF node = "python_executor" THEN code_block ELSE ""]>>
    /\ attempted # <<>> => attempted' = attempted

\* One attempt of the node execution raises: the runner executes the node
\* again if the node has a retry policy, retry_on accepts the exception and
\* attempts are left; otherwise the exception leaves astream.
attempt_raises ==
    /\ \E node \in tasks, code_block \in CodeBlocks, exc \in Failures,
          reached \in BOOLEAN, uploaded \in 0..Len(state.variables) :
         /\ attempt_of(node, code_block)
         /\ raises(node, exc, reached, uploaded)
         /\ session_effect(node, reached, uploaded)
         /\ attempts' = attempts + 1
         /\ raised' = <<exc>>
         /\ status' =
               IF /\ retry_wrapped(top, node)
                  /\ retry_on(exc)
                  /\ attempts + 1 < max_attempts
                 THEN "running"
                 ELSE status_after_raise
    /\ UNCHANGED <<state, top, tasks, writes, interrupts, resume_value>>
    /\ UNCHANGED <<message_to_user, user_response, connected>>
    /\ UNCHANGED <<max_message_turn, clock, session_ids, active_sessions>>
    /\ UNCHANGED <<patch, probe>>

\* One attempt of the node execution returns its Command.
attempt_returns ==
    /\ \E node \in tasks, code_block \in CodeBlocks :
         /\ attempt_of(node, code_block)
         /\ patch' = <<node_patch(node, attempted'[1].code_block)>>
         /\ session_effect(node, node \in SessionNodes, Len(state.variables))
    /\ UNCHANGED <<state, top, tasks, writes, interrupts, resume_value>>
    /\ UNCHANGED session_vars
    /\ UNCHANGED <<max_message_turn, clock, session_ids, active_sessions>>
    /\ UNCHANGED <<attempts, raised, probe>>

\* The run up to the node execution that is followed attempt by attempt.
program_step ==
    /\ attempted = <<>>
    /\ Progress

\* A run of the program in which the runner's attempts at one node of a
\* code stage are followed one by one.
RetryNext ==
    \/ program_step
    \/ attempt_raises
    \/ attempt_returns

RetrySpec == Init /\ [][RetryNext]_vars

\* One call of retry_on, on one exception.
call_retry_on ==
    /\ probe = <<>>
    /\ \E exc \in Exceptions :
         probe' = <<[op |-> "retry_on", x |-> exc, result |-> retry_on(exc)]>>
    /\ UNCHANGED <<graph_vars, session_vars, retry_vars>>
    /\ UNCHANGED <<max_message_turn, clock, session_ids, active_sessions>>

(***************************************************************************)
(* The helpers of agent/utils.py: CustomSerializer, truncate_string_middle *)
(***************************************************************************)
MaxItems == 2       \* the longest tuple and list of the payloads
MaxLabels == 2      \* the most columns and the most rows of a table
MaxStrLen == 4      \* the longest string handed to truncate_string_middle
MaxBudget == 5      \* the largest max_length

SeqsUpTo(S, n) == UNION {[1..k -> S] : k \in 0..n}

SeqRange(q) == {q[i] : i \in DOMAIN q}

\* The Python objects the serializer is handed.
Str(v) == [kind |-> "str", v |-> v]
Dict(keys, vals) == [kind |-> "dict", keys |-> keys, vals |-> vals]
Tuple(items) == [kind |-> "tuple", items |-> items]
List(items) == [kind |-> "list", items |-> items]

\* A table: its column labels, its row labels and its cells by position.
DataFrame(columns, index, cells) ==
    [kind |-> "DataFrame", columns |-> columns, index |-> index,
     cells |-> cells]

\* The result of a call: the value returned or the exception raised.
Returns(value) == [raised |-> "", value |-> <<value>>]
Raises(exception) == [raised |-> exception, value |-> <<>>]

ColumnLabels == {"a", "b"}
IndexLabels == {"0", "1"}

\* Every cell holds a value of its own.
Tables ==
    { DataFrame(columns, index,
                [r \in DOMAIN index |-> [c \in DOMAIN columns |-> <<r, c>>]]) :
        columns \in SeqsUpTo(ColumnLabels, MaxLabels),
        index \in SeqsUpTo(IndexLabels, MaxLabels) }

Scalars == {Str("DataFrame"), Str("a")}

Elements == Scalars \cup {Dict(<<>>, <<>>)}

PayloadObjects ==
    Scalars
    \cup {Tuple(items) : items \in SeqsUpTo(Elements, MaxItems)}
    \cup {List(items) : items \in SeqsUpTo(Elements, MaxItems)}
    \cup Tables

\* The keys of a dict built from the labels in their order: a label that
\* occurs again keeps its first place.
RECURSIVE dict_keys(_)
dict_keys(labels) ==
    IF labels = <<>> THEN <<>>
    ELSE LET front == dict_keys(SubSeq(labels, 1, Len(labels) - 1))
             last == labels[Len(labels)]
         IN  IF last \in SeqRange(front) THEN front ELSE Append(front, last)

\* The position whose value a dict built from the labels keeps for the key:
\* the last one.
last_position(labels, key) ==
    CHOOSE i \in DOMAIN labels :
        /\ labels[i] = key
        /\ \A j \in DOMAIN labels : labels[j] = key => j <= i

\* DataFrame.to_dict(): {column -> {index -> value}}.
to_dict(df) ==
    Dict(dict_keys(df.columns),
         [column \in SeqRange(df.columns) |->
            Dict(dict_keys(df.index),
                 [label \in SeqRange(df.index) |->
                    df.cells[last_position(df.index, label)]
                            [last_position(df.columns, column)]])])

\* pd.DataFrame.from_dict(data): the keys are the columns, the keys of the
\* inner dicts the index; anything but a dict is refused.
from_dict(data) ==
    IF data.kind # "dict"
      THEN Raises("ValueError")
      ELSE LET columns == data.keys
               index == IF columns = <<>> THEN <<>>
                        ELSE data.vals[columns[1]].keys
           IN  Returns(DataFrame(columns, index,
                   [r \in DOMAIN index |-> [c \in DOMAIN columns |->
                        data.vals[columns[c]].vals[index[r]]]]))

\* pickle keeps the object: the bytes stand for the object pickled.
pickle_dumps(obj) == [pickled |-> obj]
pickle_loads(data) == data.pickled

dumps(obj) ==
    IF obj.kind = "DataFrame"
      THEN pickle_dumps(Tuple(<<Str("DataFrame"), to_dict(obj)>>))
      ELSE pickle_dumps(obj)

dumps_typed(obj) ==
    IF obj.kind = "DataFrame"
      THEN <<"DataFrame", pickle_dumps(to_dict(obj))>>
      ELSE <<"pickle", pickle_dumps(obj)>>

\* Variant: the type marker is looked for in no tuple.
loads_plain(data) == Returns(pickle_loads(data))

\* obj[0] and obj[1] raise IndexError on a tuple that is too short.
loads(data) ==
    LET obj == pickle_loads(data)
    IN  IF obj.kind = "tuple"
          THEN IF Len(obj.items) = 0 THEN Raises("IndexError")
               ELSE IF obj.items[1] = Str("DataFrame")
                 THEN IF Len(obj.items) < 2 THEN Raises("IndexError")
                      ELSE from_dict(obj.items[2])
               ELSE Returns(obj)
          ELSE Returns(obj)

loads_typed(data) ==
    LET type_str == data[1]
        bytes_data == data[2]
    IN  IF type_str = "DataFrame"
          THEN from_dict(pickle_loads(bytes_data))
          ELSE Returns(pickle_loads(bytes_data))

\* The strings and the budgets handed to truncate_string_middle.
Strings == SeqsUpTo({"a", "b"}, MaxStrLen)
Budgets == 0..MaxBudget

\* s[:half]
FirstChars(s, half) ==
    SubSeq(s, 1, IF half < Len(s) THEN half ELSE Len(s))

\* s[-half:], which is s[0:], the whole of s, when half is 0
LastChars(s, half) ==
    IF half = 0 \/ half >= Len(s) THEN s
    ELSE SubSeq(s, Len(s) - half + 1, Len(s))

\* The string returned: s itself, or the head, the marker with the count
\* written in it, and the tail.
Unchanged(s) == [truncated |-> FALSE, head |-> s, omitted |-> 0, tail |-> <<>>]
Truncated(head, omitted, tail) ==
    [truncated |-> TRUE, head |-> head, omitted |-> omitted, tail |-> tail]

truncate_string_middle(s, max_length) ==
    IF Len(s) <= max_length THEN Unchanged(s)
    ELSE LET half == max_length \div 2
         IN  Truncated(FirstChars(s, half), Len(s) - max_length,
                       LastChars(s, half))

\* One call of a helper, on one input.
call_loads_dumps ==
    /\ probe = <<>>
    /\ \E x \in PayloadObjects :
         probe' = <<[op |-> "loads(dumps(x))", x |-> x,
                     result |-> loads(dumps(x))]>>
    /\ UNCHANGED <<graph_vars, session_vars, retry_vars>>
    /\ UNCHANGED <<max_message_turn, clock, session_ids, active_sessions>>

call_loads_dumps_typed ==
    /\ probe = <<>>
    /\ \E x \in PayloadObjects :
         probe' = <<[op |-> "loads_typed(dumps_typed(x))", x |-> x,
                     result |-> loads_typed(dumps_typed(x))]>>
    /\ UNCHANGED <<graph_vars, session_vars, retry_vars>>
    /\ UNCHANGED <<max_message_turn, clock, session_ids, active_sessions>>

call_truncate_string_middle ==
    /\ probe = <<>>
    /\ \E s \in Strings, max_length \in Budgets :
         probe' = <<[op |-> "truncate_string_middle",
                     x |-> [s |-> s, max_length |-> max_length],
                     result |-> truncate_string_middle(s, max_length)]>>
    /\ UNCHANGED <<graph_vars, session_vars, retry_vars>>
    /\ UNCHANGED <<max_message_turn, clock, session_ids, active_sessions>>

UtilsNext ==
    \/ call_loads_dumps
    \/ call_loads_dumps_typed
    \/ call_truncate_string_middle
    \/ call_retry_on

UtilsSpec == Init /\ [][UtilsNext]_vars

(***************************************************************************)
(* Properties                                                              *)
(***************************************************************************)
history == state.step_message_history

\* Stage k has begun: its first node has returned.
StageBegun(k) ==
    \/ top = "END"
    \/ StageOrder(top) > k
    \/ StageOrder(top) = k /\ tasks # FirstTasks(top)

\* A step of the node `node` of a code stage in which it returns.
NodeReturns(node) ==
    /\ top \in CodeStages
    /\ Streaming
    /\ tasks = {node}
    /\ <<state, tasks, top>>' # <<state, tasks, top>>
    /\ interrupts' = <<>>

\* A step of the agent of stage 1 in which it returns.
Step1AgentReturns ==
    /\ top = "step_1_define_objective"
    /\ Streaming
    /\ tasks = {"agent"}
    /\ <<state, tasks, top>>' # <<state, tasks, top>>
    /\ interrupts' = <<>>

\* C1: for every i in 1..4 the first node of stage i+1 never executes while
\* steps[i].completed is false.
C1_NextStageOnlyAfterCompleted ==
    \A i \in 1..4 : StageBegun(i + 1) => state.steps[i].completed

\* C2: whenever a stage's completed flag becomes true, the state holds a
\* checklist validation result and a non-empty list of critic validation
\* results.
C2_CompletedOnlyWithValidation ==
    [][\A i \in 1..5 :
          (~state.steps[i].completed /\ state'.steps[i].completed)
            => /\ state'.checklist_validation_result # <<>>
               /\ state'.critic_validation_result # <<>>
               /\ Len(state'.critic_validation_result[1]) > 0]_vars

\* The last three messages of the history are the summaries the validators
\* wrote for the results in state: the checklist's, then the two critics'.
ValidatorSummariesLast ==
    LET n == Len(history)
    IN  /\ n >= 3
        /\ history[n - 2] =
              ResultMessage("checklist_result", state.checklist_validation_result[1])
        /\ Len(state.critic_validation_result[1]) = 2
        /\ \A j \in 1..2 :
              history[n - 2 + j] =
                 ResultMessage("critic_result", state.critic_validation_result[1][j])

\* C3: in stages 2-4, whenever rendevous is scheduled, both validators of
\* the preceding fan-out have returned and both results are in the state it
\* reads; it is scheduled alone, once, directly after their patches were
\* merged, whichever validator returned first.
C3_RendezvousAfterBothValidators ==
    ("rendevous" \in tasks) =>
        /\ tasks = {"rendevous"}
        /\ writes = {}
        /\ state.checklist_validation_result # <<>>
        /\ state.critic_validation_result # <<>>
        /\ ValidatorSummariesLast

C3_Witness ==
    /\ top = "step_2_data_cleaning"
    /\ tasks = {"rendevous"}
    /\ ~state.checklist_validation_result[1].pass_the_validation
    /\ state.critic_validation_result[1][1].pass_the_validation
    /\ ~state.critic_validation_result[1][2].pass_the_validation

\* C4: when the agent is entered with more than 2 x maxTurns messages in
\* the history, the stage is forced to both validators (stages 2-4) or to
\* its terminal node (stage 1), and a message noting the limit is appended.
C4_LimitForcesValidation ==
    [][/\ (NodeReturns("agent") /\ Len(history) > 2 * max_message_turn)
            => /\ tasks' = {"checklist_validator", "critic_validator"}
               /\ history' = Append(history, HumanMessage("maximum_messages", <<>>))
       /\ (Step1AgentReturns /\ Len(history) > 2 * MAX_MESSAGE_TURN)
            => /\ top' = NextTop(top)
               /\ history' = Append(history, HumanMessage("maximum_messages", <<>>))
      ]_vars

\* The history is the seed followed by unparseable responses only, each
\* followed by the corrective instruction.
AllUnparseable(h) ==
    /\ Len(h) >= 2
    /\ SubSeq(h, 1, 2) = step_seed
    /\ \A i \in 3..Len(h) :
          h[i].kind = IF i % 2 = 1 THEN "response" ELSE "check_your_last_response"

\* The agent is forced out: it appends the limit message and goes to the
\* node after the loop.
ForcedOut ==
    /\ history' = Append(history, HumanMessage("maximum_messages", <<>>))
    /\ tasks' = {"save_variables"}

\* C5 (as stated): the agent never runs another generation turn once the
\* stage history has reached 2 x m messages.
C5_ForcedAtTwiceTheBudget ==
    [][(NodeReturns("agent") /\ Len(history) >= 2 * max_message_turn)
          => ForcedOut]_vars

\* C5 (amended): the agent runs a generation turn exactly when the history
\* holds at most 2 x m messages, and is forced out exactly when it holds
\* more; when every response is unparseable this is at 2 x m + 2 messages.
C5_ForcedAboveTwiceTheBudget ==
    [][NodeReturns("agent")
          => /\ (Len(history) > 2 * max_message_turn) <=> ForcedOut
             /\ (Len(history) <= 2 * max_message_turn)
                  => /\ Len(history') > Len(history)
                     /\ history'[Len(history) + 1] = AIMessage("response", <<>>)
             /\ (ForcedOut /\ AllUnparseable(history))
                  => Len(history) = 2 * max_message_turn + 2]_vars

C5_Witness ==
    /\ top \in CodeStages
    /\ max_message_turn = MaxTurns
    /\ tasks = {"save_variables"}
    /\ Len(history) = 2 * max_message_turn + 3
    /\ AllUnparseable(SubSeq(history, 1, 2 * max_message_turn + 2))
    /\ history[Len(history)] = HumanMessage("maximum_messages", <<>>)

\* The session is over for the caller: it was cancelled, or closed with or
\* without an error.
SessionClosed == status \in {"cancelled", "completed", "error"}

\* C6: under fairness every stage sub-graph that is entered eventually
\* reaches its terminal node, unless the session is closed first (the
\* caller ends it instead of resuming it, or a node fails).  The entry graph leaves a stage only when its sub-graph has
\* ended and goes through the stages in order, so every stage entered
\* ends iff the entry graph reaches END.
C6_EveryStageEnds ==
    (StageOrder(top) \in 1..5) ~> (top = "END" \/ SessionClosed)

\* Stage 2 was left by the turn limit: no DONE was ever validated.
C6_Witness ==
    /\ top = "step_3_data_exploration"
    /\ tasks = {"init_e2b_sandbox"}
    /\ state.steps[2].completed
    /\ state.checklist_validation_result = <<>>
    /\ \E i \in 1..Len(history) : history[i].kind = "maximum_messages"

\* rendevous decides by the validation results: human-in-the-loop is off,
\* or the resume value is "pass" (any case) or empty.
DecidesByValidation ==
    \/ ~state.use_human_in_the_loop
    \/ /\ resume_value # <<>>
       /\ Lower(resume_value[1]) # T_ignore
       /\ (Lower(resume_value[1]) = T_pass \/ Strip(resume_value[1]) = <<>>)

\* The checklist result passed and the critic list is non-empty with every
\* critic passed.
AllPassed ==
    /\ state.checklist_validation_result # <<>>
    /\ state.checklist_validation_result[1].pass_the_validation
    /\ state.critic_validation_result # <<>>
    /\ state.critic_validation_result[1] # <<>>
    /\ \A i \in DOMAIN state.critic_validation_result[1] :
          state.critic_validation_result[1][i].pass_the_validation

\* C7: whenever rendevous decides by validation it advances to the next
\* node iff everything passed (changing nothing); otherwise it routes to
\* the agent and appends exactly one "address both feedbacks" instruction.
C7_DecisionByValidation ==
    [][(NodeReturns("rendevous") /\ DecidesByValidation)
          => IF AllPassed
               THEN tasks' = {"save_variables"} /\ state' = state
               ELSE /\ tasks' = {"agent"}
                    /\ history' =
                          Append(history, HumanMessage("address_feedbacks", <<>>))]_vars

\* Resumed with "pass" under human-in-the-loop with one critic failing:
\* back at the agent with the instruction appended.
C7_Witness ==
    /\ top \in CodeStages
    /\ state.use_human_in_the_loop
    /\ tasks = {"agent"}
    /\ state.checklist_validation_result # <<>>
    /\ state.checklist_validation_result[1].pass_the_validation
    /\ ~AllPassed
    /\ history[Len(history)] = HumanMessage("address_feedbacks", <<>>)

\* C8: resumed with "ignore" in any letter case, rendevous routes to the
\* next node whatever the results are and changes nothing in the state.
C8_IgnoreAdvances ==
    [][(/\ NodeReturns("rendevous")
        /\ state.use_human_in_the_loop
        /\ resume_value # <<>>
        /\ Lower(resume_value[1]) = T_ignore)
          => tasks' = {"save_variables"} /\ state' = state]_vars

\* Advanced from rendevous with a failed validation.
C8_Witness ==
    /\ top \in CodeStages
    /\ state.use_human_in_the_loop
    /\ tasks = {"save_variables"}
    /\ state.checklist_validation_result # <<>>
    /\ ~AllPassed
    /\ history[Len(history)].kind = "critic_result"

\* C9: no payload the caller sends in answer to a prompt, quit signals
\* apart, ends the session, and a resume value that is not "ignore", "pass"
\* or empty is appended as one user message with rendevous routing to the
\* agent.
C9_EveryPayloadResumes ==
    [][/\ (status = "waiting_for_input" /\ status' # "waiting_for_input"
             /\ status' # "cancelled")
            => status' = "running" /\ resume_value' # <<>>
       /\ (/\ NodeReturns("rendevous")
           /\ state.use_human_in_the_loop
           /\ resume_value # <<>>
           /\ Lower(resume_value[1]) \notin {T_ignore, T_pass}
           /\ Strip(resume_value[1]) # <<>>)
            => /\ tasks' = {"agent"}
               /\ history' =
                     Append(history, HumanMessage("user_input", resume_value[1]))
      ]_vars

\* C10: in stage 1 the node resumed after a suspension records the message
\* that was shown to the user and takes the resume value into the objective.
C10_ResumeAsIfNotSuspended ==
    [][(/\ top = "step_1_define_objective"
        /\ Streaming
        /\ resume_value # <<>>
        /\ resume_value' = <<>>)
          => /\ tasks' = {"agent"} /\ top' = top
             /\ state'.objective = "updated"
             /\ history' = history \o
                   <<AIMessage("message_to_user", message_to_user[1].text),
                     HumanMessage("user_said", resume_value[1])>>]_vars

\* C11: a session suspended at a node stays resumable after the caller's
\* connection has ended: a resume value can still be supplied for it, and
\* the run continues from the suspended node.
C11_SuspendedStaysResumable ==
    (interrupts # <<>> /\ ~connected) => ENABLED resume_graph

\* C12: a session has at most one pending suspension; the caller is
\* prompted once for it, with its message, and not again while an answer is
\* outstanding; the answer removes that suspension and is delivered to the
\* node that raised it, which is the only node scheduled.
C12_OnePendingSuspension ==
    [][/\ Len(interrupts') <= 1
       /\ (status # "waiting_for_input" /\ status' = "waiting_for_input")
            => /\ interrupts # <<>>
               /\ resume_value = <<>>
               /\ message_to_user' = interrupts
               /\ interrupts' = interrupts
       /\ (resume_value = <<>> /\ resume_value' # <<>>)
            => /\ status = "waiting_for_input"
               /\ interrupts = message_to_user
               /\ interrupts' = <<>>
               /\ tasks' = {message_to_user[1].node}
       /\ (resume_value # <<>> /\ resume_value' = <<>>)
            => /\ tasks = {message_to_user[1].node}
               /\ interrupts = <<>>]_vars

\* The second suspension of a session: the question of stage 1 was answered
\* and the rendevous of a later stage is waiting for its answer.
C12_Witness ==
    /\ status = "waiting_for_input"
    /\ top \in CodeStages
    /\ state.objective = "updated"
    /\ interrupts = message_to_user
    /\ message_to_user[1].node = "rendevous"

\* C13: when the payload received while the session is suspended is "q" or
\* "quit" in any letter case, the status becomes "cancelled" and the graph
\* is not resumed; no node executes once the quit signal was received.
C13_QuitCancels ==
    [][/\ (/\ status = "waiting_for_input"
           /\ user_response = <<>>
           /\ user_response' # <<>>
           /\ user_response'[1].isStr
           /\ Lower(user_response'[1].s) \in {T_q, T_quit})
            => /\ status' = "cancelled"
               /\ UNCHANGED graph_vars
       /\ (/\ user_response # <<>>
           /\ user_response[1].isStr
           /\ Lower(user_response[1].s) \in {T_q, T_quit})
            => UNCHANGED graph_vars]_vars

\* Cancelled with "Quit" while a suspension was pending.
C13_Witness ==
    /\ status = "cancelled"
    /\ interrupts # <<>>
    /\ user_response = <<[isStr |-> TRUE, s |-> <<"Q","u","i","t">>]>>

\* C14: whenever a node fails while the graph is streaming, in the first
\* run or after a resume, the status recorded is "error" (never
\* "completed").
C14_FailedRunIsError ==
    [][(Streaming /\ status' # status) => status' = "error"]_vars

\* C15: two connections never have the same session identifier, and the
\* registry entry of each is the one it stored.
C15_DistinctSessionIds ==
    \A c1 \in Connections, c2 \in Connections :
        (c1 # c2 /\ session_ids[c1] # <<>> /\ session_ids[c2] # <<>>)
          => /\ session_ids[c1] # session_ids[c2]
             /\ active_sessions[session_ids[c1][1]].websocket = c1

\* C16: under the turn budget, a response with a fenced code block goes to
\* the executor with that code stored, also when it holds DONE, and the
\* agent goes to the validators only for a response with DONE and no code
\* block.
C16_CodeBlockGoesToExecute ==
    (/\ top \in CodeStages
     /\ "agent" \in tasks
     /\ Len(history) <= 2 * max_message_turn)
      => \A response \in Responses, selection \in VariableSelections :
            LET c == agent_command(state, max_message_turn, "save_variables",
                                   response, selection)
                has_code_block == response.fence /\ response.body # ""
            IN  /\ has_code_block
                     => /\ c.goto = {"python_executor"}
                        /\ c.update.code_block = response.body
                /\ (c.goto = {"checklist_validator", "critic_validator"})
                     <=> (response.done /\ ~has_code_block)

\* C17: once an execution session has been acquired, init_e2b_sandbox of a
\* later stage leaves sandbox_id unchanged, acquires no session and uploads
\* nothing.
C17_SandboxReused ==
    [][(/\ top \in CodeStages
        /\ Streaming
        /\ tasks = {"init_e2b_sandbox"}
        /\ tasks' # tasks
        /\ sandboxes.acquired > 0)
          => /\ state'.sandbox_id = state.sandbox_id
             /\ sandboxes' = sandboxes]_vars

\* C18: no two artifacts of state.variables have the same key.
C18_ArtifactKeysUnique ==
    \A i \in DOMAIN state.variables, j \in DOMAIN state.variables :
        i # j => state.variables[i] # state.variables[j]

\* C19: no step removes an artifact from state.variables: what a stage
\* found there, or what an earlier stage materialized, is there for every
\* later stage.
C19_ArtifactsKept ==
    [][\A i \in DOMAIN state.variables :
          \E j \in DOMAIN state'.variables :
              state'.variables[j] = state.variables[i]]_vars

\* C20: when save_variables returns, state.variables holds an artifact for
\* every name that was selected.
C20_EverySelectedNameSaved ==
    [][NodeReturns("save_variables")
          => \A i \in DOMAIN state.variables_to_save :
                \E j \in DOMAIN state'.variables :
                    state'.variables[j] = state.variables_to_save[i]]_vars

(***************************************************************************)
(* The retry policy: C21 .. C24                                            *)
(***************************************************************************)
\* An attempt has just failed.
AttemptFailed == attempts' = attempts + 1

\* C21: a node wrapped by the retry policy is attempted at most 3 times: it
\* is run again only after a failure retry_on accepts, a failure retry_on
\* rejects fails it at once, and after the third failed attempt the run
\* ends with the status "error".
C21_ThreeAttemptsThenError ==
    [][(AttemptFailed /\ retry_wrapped(top, attempted'[1].node)) =>
          /\ attempts' <= max_attempts
          /\ status' = "running" => retry_on(raised'[1])
          /\ ~retry_on(raised'[1]) => status' # "running"
          /\ attempts' = max_attempts => status' = "error"]_vars

\* A network or connection failure: a connection error of the standard
\* library, of httpx or of requests.
NetworkFailure(exc) ==
    \/ isinstance(exc, "ConnectionError")
    \/ isinstance(exc, "httpx_ConnectError")
    \/ isinstance(exc, "requests_ConnectionError")

\* An HTTP status error that carries its status.
HTTPStatusError(exc) ==
    /\ isinstance(exc, "httpx_HTTPStatusError")
          \/ isinstance(exc, "requests_HTTPError")
    /\ exc.response # <<>>

\* C22: retry_on is true for every network/connection failure and every
\* HTTP status error with a status in 500..599, false for every HTTP status
\* error with a status outside 500..599 and for every error of the deny-list
\* kinds, true for every other error.
C22_ClassifierPolicy ==
    (probe # <<>> /\ probe[1].op = "retry_on") =>
        LET exc == probe[1].x
            result == probe[1].result
        IN  IF NetworkFailure(exc) THEN result
            ELSE IF HTTPStatusError(exc)
              THEN result <=> exc.response[1] \in 500..599
            ELSE IF isinstance(exc, "requests_HTTPError") THEN TRUE
            ELSE IF \E class \in DenyList : isinstance(exc, class)
              THEN ~result
            ELSE result

\* C23: in each code stage a bootstrap error of init_e2b_sandbox is fatal
\* at once: the node is not run again and the run ends.
C23_BootstrapErrorIsFatal ==
    [][(AttemptFailed /\ raised' = <<BootstrapError>>) =>
          status' # "running"]_vars

\* The Command the node returns when its first attempt succeeds: the
\* session acquired is the one after the session of the state, and the code
\* block runs for the first time.
first_attempt_patch(node) ==
    CASE node = "init_e2b_sandbox" ->
           [goto |-> {"init_message_history"},
            update |-> [sandbox_id |-> state.sandbox_id + 1]]
      [] node = "python_executor" ->
           [goto |-> {"agent"},
            update |-> [step_message_history |->
                <<HumanMessage("execution_output",
                               run_code(attempted[1].code_block, 0))>>]]
      [] OTHER -> node_patch(node, attempted[1].code_block)

\* C24: a wrapped node that fails transiently once and then succeeds returns
\* the state patch and the routing decision it returns when it succeeds at
\* the first attempt.
C24_RetryIsIdempotent ==
    (/\ patch # <<>>
     /\ attempts = 1
     /\ retry_wrapped(top, attempted[1].node)
     /\ retry_on(raised[1])) =>
        patch[1] = first_attempt_patch(attempted[1].node)

(***************************************************************************)
(* The helpers of agent/utils.py: C25, C26                                 *)
(***************************************************************************)
\* A table comes back with its column set, its row count and its cells.
SameTable(x, y) ==
    /\ y.kind = "DataFrame"
    /\ SeqRange(y.columns) = SeqRange(x.columns)
    /\ Len(y.columns) = Len(x.columns)
    /\ Len(y.index) = Len(x.index)
    /\ \A r \in DOMAIN x.index : \A c \in DOMAIN x.columns :
          \E k \in DOMAIN y.columns :
             /\ y.columns[k] = x.columns[c]
             /\ y.cells[r][k] = x.cells[r][c]

Reconstructs(x, result) ==
    /\ result.raised = ""
    /\ IF x.kind = "DataFrame"
         THEN SameTable(x, result.value[1])
         ELSE result.value[1] = x

\* C25: for every payload x, loads(dumps(x)) and loads_typed(dumps_typed(x))
\* give x back: a table with its column set, row count and cell values,
\* every other payload equal to x and without raising.
C25_SerializerRoundTrip ==
    (/\ probe # <<>>
     /\ probe[1].op \in {"loads(dumps(x))", "loads_typed(dumps_typed(x))"})
        => Reconstructs(probe[1].x, probe[1].result)

\* C26: truncate_string_middle returns s unchanged when len(s) <= m;
\* otherwise the first floor(m/2) characters, a marker and the last
\* floor(m/2) characters, the count written in the marker being the number
\* of characters of s in neither kept segment.
C26_TruncateKeepsHeadAndTail ==
    (probe # <<>> /\ probe[1].op = "truncate_string_middle") =>
        LET s == probe[1].x.s
            m == probe[1].x.max_length
            out == probe[1].result
            half == m \div 2
        IN  IF Len(s) <= m
              THEN out = Unchanged(s)
              ELSE /\ out.truncated
                   /\ out.head = SubSeq(s, 1, half)
                   /\ out.tail = SubSeq(s, Len(s) - half + 1, Len(s))
                   /\ out.omitted = Len(s) - Len(out.head) - Len(out.tail)

(***************************************************************************)
(* The plan and the history: C27 .. C30                                    *)
(***************************************************************************)
\* C27: when the run reaches the terminal node of the pipeline, every one
\* of the five stages has completed = true.
C27_AllStagesCompletedAtEnd ==
    top = "END" => \A i \in 1..5 : state.steps[i].completed

\* C28: a stage's completed flag never changes from true back to false (so
\* it changes from false to true at most once), whatever node runs.
C28_CompletedNeverReverts ==
    [][\A i \in 1..5 :
          state.steps[i].completed => state'.steps[i].completed]_vars

\* The skipped stage and two code stages are completed: check_if_skip_any_step
\* and write_step_report have run, the latter twice.
C28_Witness ==
    /\ state.skip_define_objective_step
    /\ top = "step_4_data_analysis"
    /\ \A i \in 1..3 : state.steps[i].completed

Validators == {"checklist_validator", "critic_validator"}

\* C29: the set of nodes being executed is empty, a single node, or exactly
\* the two validators of the current stage.
C29_OneNodeOrBothValidators ==
    \/ tasks = {}
    \/ Cardinality(tasks) = 1
    \/ tasks = Validators /\ top \in CodeStages

\* Both validators of the data analysis stage are being executed, neither
\* has returned.
C29_Witness ==
    /\ top = "step_4_data_analysis"
    /\ tasks = Validators
    /\ writes = {}

IsPrefix(p, q) == Len(p) <= Len(q) /\ SubSeq(q, 1, Len(p)) = p

\* The step in which the first node of the stage runs.
Entering ==
    /\ StageOrder(top) > 0
    /\ tasks = FirstTasks(top)
    /\ tasks' # tasks

\* The seed init_message_history of the stage writes.
StageSeed(t) ==
    IF t = "step_1_define_objective" THEN step_1_seed
    ELSE IF t \in CodeStages THEN step_seed
    ELSE <<>>

\* C30: within a stage the history only grows (the history before a node
\* transition is a prefix of the history after it), and a stage starts from
\* a history that holds its own seed only, no message of an earlier stage.
C30_HistoryAppendOnly ==
    [][/\ (StageOrder(top) > 0 /\ ~Entering) => IsPrefix(history, history')
       /\ Entering => history' \in {<<>>, StageSeed(top)}
       /\ ("init_message_history" \in tasks
             /\ "init_message_history" \notin tasks')
            => history' = StageSeed(top)]_vars

\* The third stage has its seed only, the second having ended with a longer
\* history.
C30_Witness ==
    /\ top = "step_3_data_exploration"
    /\ tasks = {"agent"}
    /\ history = step_seed
    /\ state.steps[2].completed

(***************************************************************************)
(* Stage 1 and the validators: C31 .. C34                                  *)
(***************************************************************************)
\* C31: stage 1 ends only through rendevous with a passed checklist result
\* or through the turn limit: an agent that judges the request answerable
\* and specific within the turn budget is followed by the checklist
\* validator.
C31_Stage1EndsThroughRendezvous ==
    [][(top = "step_1_define_objective" /\ top' # top) =>
          \/ step_1_turn_limit(history)
          \/ /\ tasks = {"rendevous"}
             /\ state.checklist_validation_result # <<>>
             /\ state.checklist_validation_result[1].pass_the_validation]_vars

\* The patch of critic_validator: two results, of o3 and of claude_4_opus in
\* this order, and one summary message per result in the same order.
CriticPatch(results, messages) ==
    /\ results # <<>>
    /\ Len(results[1]) = 2
    /\ results[1][1].model = "o3"
    /\ results[1][2].model = "claude_4_opus"
    /\ messages =
          [j \in 1..2 |-> ResultMessage("critic_result", results[1][j])]

\* C32: each run of critic_validator writes a list of exactly two results,
\* o3's then claude_4_opus's, and appends exactly two summary messages in
\* that order, each built from its own result.  (When the critic is the
\* first validator to return, its patch waits in the writes of the
\* superstep; when it is the last, the patches are merged at once, the
\* checklist's message before the critic's.)
C32_CriticWritesTwoResults ==
    [][(/\ top \in CodeStages
        /\ "critic_validator" \in tasks
        /\ "critic_validator" \notin tasks') =>
          IF writes' # {}
            THEN \E w \in writes' :
                    /\ w.node = "critic_validator"
                    /\ CriticPatch(w.update.critic_validation_result,
                                   w.update.step_message_history)
            ELSE /\ Len(history') = Len(history) + 3
                 /\ CriticPatch(state'.critic_validation_result,
                                SubSeq(history', Len(history) + 2,
                                       Len(history) + 3))]_vars

\* The critic of the data exploration stage has returned: o3 rejected, and
\* claude_4_opus passed.
C32_Witness ==
    /\ top = "step_3_data_exploration"
    /\ tasks = {"rendevous"}
    /\ ~state.critic_validation_result[1][1].pass_the_validation
    /\ state.critic_validation_result[1][2].pass_the_validation
    /\ history[Len(history) - 1].text = <<"False">>
    /\ history[Len(history)].text = <<"True">>

\* C33: with skip_define_objective_step check_if_skip_any_step marks stage 1
\* completed, leaves the steps of stages 2-5 as they are and the router
\* dispatches to stage 2, so that no node of stage 1 ever runs; without it
\* check_if_skip_any_step changes nothing and the router dispatches to
\* stage 1.
C33_SkipMarksStageOne ==
    [][/\ (top = "check_if_skip_any_step" /\ top' # top) =>
            IF state.skip_define_objective_step
              THEN /\ state'.steps[1].completed
                   /\ \A i \in 2..5 : state'.steps[i] = state.steps[i]
                   /\ top' = "step_2_data_cleaning"
              ELSE /\ state' = state
                   /\ top' = "step_1_define_objective"
       /\ state.skip_define_objective_step
            => top' # "step_1_define_objective"]_vars

\* Stage 1 was skipped: the first node of stage 2 is scheduled, no history
\* was written.
C33_Witness ==
    /\ state.skip_define_objective_step
    /\ top = "step_2_data_cleaning"
    /\ tasks = {"init_e2b_sandbox"}
    /\ state.steps[1].completed
    /\ ~state.steps[2].completed
    /\ history = <<>>

\* The agent was sent back by rendevous in this stage.
LoopedBack ==
    \E i \in DOMAIN history :
        history[i].kind \in {"address_feedbacks", "user_input"}

\* C34: whenever rendevous is scheduled after a loop-back, both results it
\* reads were written in the superstep that has just ended: one validator's
\* patch was waiting, the other validator returns, and the merged state
\* holds their results with the three summaries they appended.
C34_ResultsOfTheLastFanOut ==
    [][(/\ top \in CodeStages
        /\ LoopedBack
        /\ "rendevous" \notin tasks
        /\ "rendevous" \in tasks') =>
          /\ \E v \in Validators : \E w \in writes :
                /\ tasks = {v}
                /\ writes = {w}
                /\ w.node \in Validators \ {v}
                /\ \A f \in DOMAIN w.update \ {"step_message_history"} :
                      state'[f] = w.update[f]
          /\ Len(history') = Len(history) + 3
          /\ ValidatorSummariesLast']_vars

\* The second round of a stage passed after the first was rejected.
C34_Witness ==
    /\ top \in CodeStages
    /\ tasks = {"rendevous"}
    /\ \E i \in DOMAIN history : history[i].kind = "address_feedbacks"
    /\ validation_passed(state)

(***************************************************************************)
(* The session status and the suspensions: C35 .. C38                      *)
(***************************************************************************)
\* C35: once the status of a session is "completed", "cancelled" or "error"
\* it never changes again, whatever happens on the connection afterwards.
C35_ClosedStatusIsFinal ==
    [][(status \in {"completed", "cancelled", "error"})
          => (status' = status)]_vars

\* C36: a run suspends only at the agent of stage 1 (with its question) or
\* at the rendevous of a code stage with use_human_in_the_loop; so with
\* skip_define_objective_step and without use_human_in_the_loop the session
\* never suspends and its status is never "waiting_for_input".
C36_SuspendsOnlyWhereAsked ==
    /\ interrupts # <<>> =>
          \/ /\ interrupts[1].node = "agent"
             /\ interrupts[1].kind = "question"
             /\ top = "step_1_define_objective"
             /\ tasks = {"agent"}
          \/ /\ interrupts[1].node = "rendevous"
             /\ top \in CodeStages
             /\ tasks = {"rendevous"}
             /\ state.use_human_in_the_loop
    /\ (state.skip_define_objective_step /\ ~state.use_human_in_the_loop)
          => /\ interrupts = <<>>
             /\ status # "waiting_for_input"

\* Stage 1 was skipped and the rendevous of the data analysis stage waits
\* for the caller.
C36_Witness ==
    /\ state.skip_define_objective_step
    /\ state.use_human_in_the_loop
    /\ top = "step_4_data_analysis"
    /\ status = "waiting_for_input"
    /\ interrupts # <<>>
    /\ interrupts[1].node = "rendevous"

\* C37: in a code stage with the turn budget m the agent calls the
\* generation service (and appends its response) only when the history
\* holds at most 2 * m messages, and the history of the stage never holds
\* more than 2 * m + 6 messages.
C37_HistoryBounded ==
    [][/\ (/\ top \in CodeStages
           /\ tasks = {"agent"}
           /\ Len(history') > Len(history)
           /\ history'[Len(history) + 1].kind = "response")
            => Len(history) <= 2 * max_message_turn
       /\ (top' \in CodeStages /\ tasks' # FirstTasks(top'))
            => Len(history') <= 2 * max_message_turn + 6]_vars

\* The longest history: the agent entered with 2 * m messages, answered
\* DONE, was rejected, and was stopped by the limit at its next entry.
C37_Witness ==
    /\ top \in CodeStages
    /\ tasks = {"save_variables"}
    /\ Len(history) = 2 * max_message_turn + 6
    /\ history[Len(history)].kind = "maximum_messages"
    /\ history[Len(history) - 1].kind = "address_feedbacks"

\* The clarifications of stage 1 that were answered and recorded: each is
\* one question and one answer after the seed.
Clarifications == (Len(history) - Len(step_1_seed)) \div 2

\* C38: stage 1 suspends to ask for a clarification at most MAX_MESSAGE_TURN
\* times; after the third answered clarification the next entry of the
\* agent ends the stage without suspending again.
C38_AtMostThreeClarifications ==
    [][/\ (top = "step_1_define_objective" /\ interrupts' # <<>>)
            => Clarifications' + 1 <= MAX_MESSAGE_TURN
       /\ (/\ top = "step_1_define_objective"
           /\ tasks = {"agent"}
           /\ Clarifications = MAX_MESSAGE_TURN
           /\ <<state, tasks, top, interrupts>>' # <<state, tasks, top, interrupts>>)
            => /\ top' = "step_2_data_cleaning"
               /\ interrupts' = <<>>]_vars

\* Stage 1 has ended after three answered clarifications.
C38_Witness ==
    /\ top = "step_2_data_cleaning"
    /\ tasks = {"init_e2b_sandbox"}
    /\ Len(history) = Len(step_1_seed) + 2 * MAX_MESSAGE_TURN
    /\ history[Len(history)].kind = "user_said"
    /\ interrupts = <<>>

====
